---- MODULE Spec2Model ----
(***************************************************************************)
(* Model of libs/scrap/src/common/record.rs: the Recorder front controller *)
(* (check, check_pts, write_frame, write_audio_opus), the two container    *)
(* backends (WebmRecorder, HwRecorder) with their Drop implementations,    *)
(* and the Opus packet duration estimator.                                 *)
(*                                                                         *)
(* Conventions.  Option<T> is a record with a field "some".  A Box<dyn     *)
(* RecorderApi> is an index into the sequence "backends" (0 is None); the  *)
(* records of dropped backends stay in the sequence so that what happened  *)
(* to each of them can be stated.  The file system is "disk", a function   *)
(* from the file names that exist to the backend that created the file (0: *)
(* created by a constructor that then failed).  Results of the container   *)
(* writers (add_frame, Muxer::write_video) are inputs of the actions.      *)
(* u64 values are kept at the reduced width U64_MAX; a handler runs in     *)
(* zero wall-clock time, time passes between the calls.                    *)
(***************************************************************************)
EXTENDS Integers, Sequences, FiniteSets, TLC

\* ------------------------------------------------------------ bounds ----
MaxPts == 1
MaxFrames == 3
MaxCalls == 3
MaxAudioCalls == 5
MaxTicks == 1
TickMs == 1000
U64_MAX == 1073741823

\* ------------------------------------------------- program constants ----
MIN_SECS == 1
AUDIO_SAMPLE_RATE == 48000
DEFAULT_INC_US == 20000

VARIABLES
    inner,          \* Recorder.inner: 0 or the index of the owned backend
    ctx2,           \* Recorder.ctx2: Option<RecorderContext2>
    pts,            \* Recorder.pts: Option<i64>
    check_failed,   \* Recorder.check_failed
    audio_pts_us,   \* Recorder.audio_pts_us
    hwcodec,        \* the build has feature "hwcodec": "on", "off", or "?" while
                    \* no call has depended on it yet
    family,         \* the family of inputs this run draws from
    ticks,          \* number of Tick steps taken
    backends,       \* every backend constructed so far, in order
    disk,           \* file name -> creating backend (0: none survived)
    sent,           \* RecordState values sent into the channel of ctx.tx, in order
    now,            \* wall clock, milliseconds
    phase,          \* "running", "panicked" or "dropped"
    calls,          \* number of write_frame / write_audio_opus calls made
    last,           \* the last handler call and what it returned
    rot,            \* the last pts-reset rotation of check_pts
    base,           \* the last frame accepted as pts baseline of a segment
    hist,           \* summary of the frames submitted so far
    submitted,      \* number of video frames submitted so far
    twin,           \* other kind of ctx.tx -> the Recorder that is given the same
                    \* calls with that ctx.tx, and what its last call returned
    est             \* a call of opus_packet_duration_us: its arguments and, once
                    \* it has been applied, what it and its two helpers returned

recorder == <<inner, ctx2, pts, check_failed, audio_pts_us, hwcodec, family, ticks, backends,
              disk, sent, now, phase, calls, last, rot, base, hist, submitted, twin>>
vars == <<recorder, est>>

\* --------------------------------------------------------- data types ----
CodecFormats == {"VP8", "VP9", "AV1", "H264", "H265", "Unknown"}
FrameUnions == {"Vp8s", "Vp9s", "Av1s", "H264s", "H265s", "Rgb"}
Unions == FrameUnions
Dims == {<<1, 1>>, <<2, 1>>, <<1, 2>>}
EnvStates == {"ok", "dir", "open", "mux", "priv"}
Packets == {<<>>, <<128>>}
\* RecorderContext.tx: Some(sender) with a live receiver, None, or Some(sender)
\* whose receiver has been dropped
Sinks == {"open", "none", "closed"}

RECURSIVE SeqsUpTo(_, _)
SeqsUpTo(S, n) ==
    IF n = 0 THEN {<<>>}
    ELSE LET shorter == SeqsUpTo(S, n - 1)
         IN shorter \cup {Append(q, x) : q \in {r \in shorter : Len(r) = n - 1}, x \in S}

\* The inputs are drawn from three families.  "timeline" varies the frames
\* (pts, key flag, writer result, batching) of one VP9 stream of fixed size;
\* "segment" varies codec and resolution, with at most one frame per batch,
\* a constant pts and a writer that accepts every frame.  Both vary the
\* condition of the file system and of the muxer libraries.  "audio" is a
\* longer run of calls on one VP9 stream of key frames, one per batch, whose
\* pts lie several packet durations apart, all accepted by the writer, on a
\* file system without failures; the audio packets and the results of the
\* audio writes vary in every family.
Families == {"timeline", "segment", "audio"}
SegmentConfigs ==
    {<<"Vp9s", d>> : d \in Dims} \cup {<<u, <<1, 1>>>> : u \in Unions}
ConfigsOf(fam) == IF fam = "segment" THEN SegmentConfigs ELSE {<<"Vp9s", <<1, 1>>>>}
OksOf(fam) == IF fam = "timeline" THEN BOOLEAN ELSE {TRUE}
TimelineBatches == SeqsUpTo([pts : -1..MaxPts, key : BOOLEAN], MaxFrames)
SegmentBatches == SeqsUpTo([pts : {MaxPts}, key : BOOLEAN], 1)
\* the smallest pts whose conversion to microseconds saturates
HugePts == U64_MAX \div 1000 + 1
AudioPts == {0, 1, 4, 6, HugePts}
AudioBatches == {<<[pts |-> p, key |-> TRUE]>> : p \in AudioPts}
BatchesOf(fam) ==
    IF fam = "timeline" THEN TimelineBatches
    ELSE IF fam = "segment" THEN SegmentBatches ELSE AudioBatches
CallsOf(fam) == IF fam = "audio" THEN MaxAudioCalls ELSE MaxCalls

NoPts == [some |-> FALSE, v |-> 0]
SomePts(p) == [some |-> TRUE, v |-> p]
NoFile == [stamp |-> -1, fmt |-> "", ext |-> ""]
NoCtx2 == [some |-> FALSE, filename |-> NoFile, width |-> 0, height |-> 0, format |-> "Unknown"]
NoRot == [some |-> FALSE, old |-> NoPts, pts |-> 0, key |-> FALSE, prev_file |-> NoFile,
          prev_written |-> FALSE, err |-> "Ok", new_file |-> NoFile, same_cfg |-> FALSE,
          drops |-> 0, news |-> 0, newfiles |-> 0, pts_after |-> NoPts, latched |-> FALSE,
          audio_before |-> 0, audio_after |-> 0]
NoBase == [some |-> FALSE, pts |-> 0, key |-> FALSE, via |-> "none"]
NoHist == [steady |-> FALSE, cfg |-> <<>>, lastpts |-> 0, keyed |-> FALSE]
NoAud == [some |-> FALSE, data |-> <<>>, before |-> 0, seeded |-> FALSE, pts |-> 0,
          dur |-> NoPts, d |-> 0, first |-> FALSE, hw |-> FALSE, at |-> -1,
          wrote |-> FALSE, after |-> 0]
NoChg == [some |-> FALSE, old |-> 0, named |-> FALSE, err |-> "Ok", new |-> 0,
          prev_file |-> NoFile, new_file |-> NoFile, pts_after |-> NoPts,
          audio_before |-> 0, audio_after |-> 0]

Max(a, b) == IF a >= b THEN a ELSE b

\* ------------------------------------------------------ u64 arithmetic ----
as_u64(v) == IF v >= 0 THEN v ELSE U64_MAX + 1 + v
saturating_mul(a, b) == IF b # 0 /\ a > U64_MAX \div b THEN U64_MAX ELSE a * b
saturating_add(a, b) == IF a > U64_MAX - b THEN U64_MAX ELSE a + b
saturating_sub(a, b) == IF a < b THEN 0 ELSE a - b
overflows_add(a, b) == a > U64_MAX - b
wrapping_add(a, b) == (a + b) % (U64_MAX + 1)
wrapping_sub(a, b) == (a - b) % (U64_MAX + 1)

\* ------------------------------------------------ Opus packet duration ----
BitAnd128(b) == (b \div 128) % 2 = 1
Bits0x60(b) == (b \div 32) % 4
Low2(b) == b % 4
Low6(b) == b % 64

\* mutant: the two lowest configuration classes are taken for 10 ms frames
opus_samples_per_frame_NoFiveMs(toc, fs) ==
    IF BitAnd128(toc) THEN fs \div 400
    ELSE IF Bits0x60(toc) = 3 THEN fs \div 50
    ELSE fs \div 100

opus_samples_per_frame(toc, fs) ==
    IF BitAnd128(toc) THEN fs \div 400
    ELSE IF Bits0x60(toc) = 3 THEN fs \div 50
    ELSE IF Bits0x60(toc) # 0 THEN fs \div 100
    ELSE fs \div 200

\* mutant: the count byte is read whenever there is one
opus_nb_frames_CountWhenPresent(packet) ==
    IF Len(packet) = 0 THEN NoPts
    ELSE IF Len(packet) >= 2 THEN SomePts(Max(Low6(packet[2]), 1))
    ELSE IF Low2(packet[1]) = 0 THEN SomePts(1)
    ELSE IF Low2(packet[1]) # 3 THEN SomePts(2)
    ELSE NoPts

opus_nb_frames(packet) ==
    IF Len(packet) = 0 THEN NoPts
    ELSE IF Low2(packet[1]) = 0 THEN SomePts(1)
    ELSE IF Low2(packet[1]) # 3 THEN SomePts(2)
    ELSE IF Len(packet) < 2 THEN NoPts
    ELSE SomePts(Max(Low6(packet[2]), 1))

\* mutant: a packet of no samples has a duration of 0
no_samples_Zero(samples) == FALSE

\* if samples == 0 { return None; }
no_samples(samples) == samples = 0

\* samples.saturating_mul(1_000_000) / sample_rate.  samples is a product of
\* two u32 values of which the second is below 64, so the multiplication of
\* the source never saturates; the quotient is computed here in three steps
\* that keep every intermediate value small.
micros(samples, sample_rate) ==
    LET q == samples \div sample_rate
        r == samples % sample_rate
        q2 == (r * 1000) \div sample_rate
        r2 == (r * 1000) % sample_rate
    IN q * 1000000 + q2 * 1000 + (r2 * 1000) \div sample_rate

opus_packet_duration_us(packet, sample_rate) ==
    IF Len(packet) = 0 \/ sample_rate = 0 THEN NoPts
    ELSE LET spf == opus_samples_per_frame(packet[1], sample_rate)
             nbf == opus_nb_frames(packet)
         IN IF ~nbf.some THEN NoPts
            ELSE IF no_samples(spf * nbf.v) THEN NoPts
            ELSE SomePts(micros(spf * nbf.v, sample_rate))

\* arguments of the estimator: every control byte, alone or followed by a
\* count byte, and the empty packet; sample rates of Opus and 0
TocBytes == 0..255
CountBytes == {0, 1, 2, 3, 63, 64, 255}
EstPackets ==
    {<<>>} \cup {<<t>> : t \in TocBytes} \cup {<<t, n>> : t \in TocBytes, n \in CountBytes}
SampleRates == {0, 100, 441, 8000, 12000, 16000, 24000, 48000}
NoEst == [packet |-> <<>>, sample_rate |-> 0, applied |-> FALSE,
          spf |-> 0, nbf |-> NoPts, ret |-> NoPts]

\* ------------------------------------------------------ notifications ----
NewFile(f) == [state |-> "NewFile", file |-> f]
NewFrame == [state |-> "NewFrame", file |-> NoFile]
WriteTail == [state |-> "WriteTail", file |-> NoFile]
RemoveFile == [state |-> "RemoveFile", file |-> NoFile]

\* mutant: a send to a dropped receiver fails the Recorder
send_state_FailsWhenClosed(w, state) ==
    IF w.tx = "open" THEN [w EXCEPT !.sent = Append(@, state)]
    ELSE IF w.tx = "closed" THEN [w EXCEPT !.send_errs = @ + 1, !.check_failed = TRUE]
    ELSE w

\* tx.as_ref().map(|tx| tx.send(state)): nothing is sent without a sender;
\* Sender::send on the unbounded channel returns at once, with Err when the
\* receiver has been dropped, and the result is discarded
send_state(w, state) ==
    IF w.tx = "open" THEN [w EXCEPT !.sent = Append(@, state)]
    ELSE IF w.tx = "closed" THEN [w EXCEPT !.send_errs = @ + 1]
    ELSE w

\* --------------------------------------------------------- file system ----
Exists(d, f) == f \in DOMAIN d
CreateFile(d, f, owner) == [n \in DOMAIN d \cup {f} |-> IF n = f THEN owner ELSE d[n]]
remove_file(d, f) == [n \in DOMAIN d \ {f} |-> d[n]]

\* ------------------------------------------------------------ filename ----
IsWebmFormat(format) == format \in {"VP9", "VP8", "AV1"}
\* mutant: VP8 is not counted among the WebM formats when naming the file
Extension_Vp8AsMp4(format) == IF format = "VP9" \/ format = "AV1" THEN ".webm" ELSE ".mp4"

Extension(format) == IF format = "VP9" \/ format = "VP8" \/ format = "AV1" THEN ".webm" ELSE ".mp4"

\* Ok(filename) or Err: create_dir_all fails when the directory cannot be made
set_filename(w, format) ==
    IF w.env = "dir" THEN [ok |-> FALSE, filename |-> NoFile]
    ELSE [ok |-> TRUE, filename |-> [stamp |-> w.now, fmt |-> format, ext |-> Extension(format)]]

CodecFormatFrom(union) ==
    CASE union = "Vp8s" -> "VP8"
      [] union = "Vp9s" -> "VP9"
      [] union = "Av1s" -> "AV1"
      [] union = "H264s" -> "H264"
      [] union = "H265s" -> "H265"
      [] OTHER -> "Unknown"

\* ------------------------------------------------------------ backends ----
Ok(w) == [w |-> w, err |-> "Ok"]
Err(w, e) == [w |-> w, err |-> e]

NewBackend(w, variant, c2) ==
    [variant |-> variant, filename |-> c2.filename, width |-> c2.width,
     height |-> c2.height, format |-> c2.format,
     key |-> FALSE, written |-> FALSE, start |-> w.now,
     last_video_ns |-> 0, last_audio_ns |-> 0,
     live |-> TRUE, peers |-> Cardinality({i \in 1..Len(w.backends) : w.backends[i].live}),
     finalized |-> FALSE, duration_ns |-> 0, outcome |-> "open",
     dropped_at |-> 0, tails |-> 0, removes |-> 0,
     video |-> <<>>, audio |-> <<>>, audio_from |-> -1, seeds |-> 0,
     video_end |-> NoPts, audio_end |-> NoPts]

\* WebmRecorder::new: the file is created (or truncated) first, then the
\* muxer and, for AV1, the codec private data; a failure after the file was
\* created returns without removing it.
WebmRecorder_new(w, c2) ==
    IF w.env = "open" THEN Err(w, "FilesystemError")
    ELSE IF w.env = "mux" \/ (w.env = "priv" /\ c2.format = "AV1")
    THEN Err([w EXCEPT !.disk = CreateFile(@, c2.filename, 0)], "BackendConstructionError")
    ELSE LET id == Len(w.backends) + 1
         IN Ok([w EXCEPT !.disk = CreateFile(@, c2.filename, id),
                         !.backends = Append(@, NewBackend(w, "webm", c2)),
                         !.inner = id])

\* HwRecorder::new: Muxer::new creates the file and may fail before or after
HwRecorder_new(w, c2) ==
    IF w.env = "open" THEN Err(w, "BackendConstructionError")
    ELSE IF w.env = "mux"
    THEN Err([w EXCEPT !.disk = CreateFile(@, c2.filename, 0)], "BackendConstructionError")
    ELSE LET id == Len(w.backends) + 1
         IN Ok([w EXCEPT !.disk = CreateFile(@, c2.filename, id),
                         !.backends = Append(@, NewBackend(w, "hw", c2)),
                         !.inner = id])

\* mutant: the age of the segment is not considered
should_remove_IgnoresAge(w, b) == ~b.written

should_remove(w, b) == ~b.written \/ (w.now - b.start) \div 1000 < MIN_SECS

\* mutant: a removed file is not reported
DropBackend_SilentRemove(w, id) ==
    LET b == w.backends[id]
        rm == should_remove(w, b)
        b2 == [b EXCEPT !.live = FALSE, !.finalized = TRUE,
                        !.outcome = IF rm THEN "removed" ELSE "kept",
                        !.dropped_at = w.now,
                        !.tails = IF rm THEN @ ELSE @ + 1,
                        !.video = <<>>, !.audio = <<>>]
        w2 == [w EXCEPT !.backends[id] = b2,
                        !.disk = IF rm THEN remove_file(@, b.filename) ELSE @]
    IN IF rm THEN w2 ELSE send_state(w2, WriteTail)

\* the place in a log of the last write the container writer accepted, 0 if
\* it accepted none
LastOk(log) ==
    IF \A k \in 1..Len(log) : ~log[k].ok THEN 0
    ELSE CHOOSE k \in 1..Len(log) : log[k].ok /\ \A j \in (k + 1)..Len(log) : ~log[j].ok
\* the timestamps of the last video frame and the last audio packet accepted
LastVideoPts(b) == IF LastOk(b.video) = 0 THEN NoPts ELSE SomePts(b.video[LastOk(b.video)].pts)
LastAudioPts(b) == IF LastOk(b.audio) = 0 THEN NoPts ELSE SomePts(b.audio[LastOk(b.audio)].pts_us)

\* mutant: the audio timestamps are left out of the duration
duration_ns_VideoOnly(b) == b.last_video_ns

\* self.last_video_ns.max(self.last_audio_ns)
duration_ns(b) == Max(b.last_video_ns, b.last_audio_ns)

\* impl Drop for WebmRecorder / HwRecorder
DropBackend(w, id) ==
    LET b == w.backends[id]
        rm == should_remove(w, b)
        b2 == [b EXCEPT !.live = FALSE,
                        !.finalized = TRUE,
                        !.duration_ns = IF b.variant = "webm" THEN duration_ns(b) ELSE 0,
                        !.outcome = IF rm THEN "removed" ELSE "kept",
                        !.dropped_at = w.now,
                        !.tails = IF rm THEN @ ELSE @ + 1,
                        !.removes = IF rm THEN @ + 1 ELSE @,
                        !.video_end = LastVideoPts(b),
                        !.audio_end = LastAudioPts(b),
                        !.video = <<>>,
                        !.audio = <<>>]
        w2 == [w EXCEPT !.backends[id] = b2,
                        !.disk = IF rm THEN remove_file(@, b.filename) ELSE @]
    IN send_state(w2, IF rm THEN RemoveFile ELSE WriteTail)

\* mutant: the old backend is forgotten without being dropped
SetInnerNone_Leak(w) == [w EXCEPT !.inner = 0]

\* self.inner = None
SetInnerNone(w) ==
    IF w.inner = 0 THEN w ELSE [DropBackend(w, w.inner) EXCEPT !.inner = 0]

\* mutant: every frame is handed to the container writer
write_video_Ungated(b, f, ok) ==
    [b EXCEPT !.key = b.key \/ f.key,
              !.written = @ \/ ok,
              !.last_video_ns = IF ok /\ b.variant = "webm"
                                THEN saturating_mul(as_u64(f.pts), 1000000) ELSE @,
              !.video = Append(@, [pts |-> f.pts, key |-> f.key, fwd |-> TRUE, ok |-> ok])]

\* WebmRecorder::write_video / HwRecorder::write_video; ok is the result of
\* the container writer, consulted only when the frame is forwarded to it
write_video(b, f, ok) ==
    LET key2 == b.key \/ f.key
        pts_ns == saturating_mul(as_u64(f.pts), 1000000)
        good == key2 /\ ok
    IN [b EXCEPT !.key = key2,
                 !.written = @ \/ good,
                 !.last_video_ns = IF good /\ b.variant = "webm" THEN pts_ns ELSE @,
                 !.video = Append(@, [pts |-> f.pts, key |-> f.key, fwd |-> key2, ok |-> good])]

\* mutant: the hardware-muxed backend takes audio like the other
write_audio_HwAccepts(b, pts_us, ok) ==
    [b EXCEPT !.written = @ \/ ok,
              !.last_audio_ns = IF ok THEN saturating_mul(pts_us, 1000) ELSE @,
              !.audio = Append(@, [pts_us |-> pts_us, ok |-> ok, key |-> b.key])]

\* WebmRecorder::write_audio; HwRecorder keeps the trait default (false)
write_audio(b, pts_us, ok) ==
    LET good == b.variant = "webm" /\ ok
        pts_ns == saturating_mul(pts_us, 1000)
    IN [b EXCEPT !.written = @ \/ good,
                 !.last_audio_ns = IF good THEN pts_ns ELSE @,
                 !.audio = Append(@, [pts_us |-> pts_us, ok |-> good, key |-> b.key])]

\* ------------------------------------------------------------ Recorder ----
World ==
    [inner |-> inner, ctx2 |-> ctx2, pts |-> pts, check_failed |-> check_failed,
     audio_pts_us |-> audio_pts_us, backends |-> backends, disk |-> disk,
     sent |-> sent, rot |-> rot, base |-> base, nrot |-> 0, chg |-> NoChg,
     noffered |-> 0, env |-> "ok",
     hwcodec |-> hwcodec = "on", now |-> now, tx |-> "open", send_errs |-> 0]

\* a Recorder at the start of a call: the per-call fields are reset
Resume(w, e, hw, t) ==
    [w EXCEPT !.nrot = 0, !.chg = NoChg, !.noffered = 0, !.env = e, !.hwcodec = hw, !.now = t]

\* a call has returned r: what is kept of it until the next call
Settled(r) == [w |-> Resume(r.w, "ok", FALSE, 0), err |-> r.err]

\* Recorders constructed like this one except for ctx.tx
TwinsOf(S) == [t \in S |-> Settled(Ok([World EXCEPT !.tx = t]))]

RECURSIVE CountState(_, _)
CountState(s, st) ==
    IF s = <<>> THEN 0
    ELSE (IF s[Len(s)].state = st THEN 1 ELSE 0) + CountState(SubSeq(s, 1, Len(s) - 1), st)

RECURSIVE CountDropped(_)
CountDropped(bs) ==
    IF bs = <<>> THEN 0
    ELSE (IF bs[Len(bs)].live THEN 0 ELSE 1) + CountDropped(SubSeq(bs, 1, Len(bs) - 1))

RECURSIVE TotalVideo(_)
TotalVideo(bs) ==
    IF bs = <<>> THEN 0
    ELSE Len(bs[Len(bs)].video) + TotalVideo(SubSeq(bs, 1, Len(bs) - 1))

\* the constructor check selects for the format (hwcodec is a build feature)
construct(w, format) ==
    IF IsWebmFormat(format) THEN WebmRecorder_new(w, w.ctx2)
    ELSE IF w.hwcodec THEN HwRecorder_new(w, w.ctx2)
    ELSE Err(w, "UnsupportedCodecForBackend")

\* mutant: the audio cursor of the previous segment is kept
reset_timeline_KeepsCursor(w) == [w EXCEPT !.pts = NoPts]

\* self.pts = None; self.audio_pts_us = 0
reset_timeline(w) == [w EXCEPT !.pts = NoPts, !.audio_pts_us = 0]

\* mutant: a new segment is opened without a NewFile notification
check_constructed_Unannounced(r, filename) ==
    IF r.err # "Ok" THEN r
    ELSE Ok(reset_timeline(r.w))

\* Recorder::check once the constructor has returned r
check_constructed(r, filename) ==
    IF r.err # "Ok" THEN r
    ELSE Ok(send_state(reset_timeline(r.w), NewFile(filename)))

\* Recorder::check from `if self.inner.is_none()` on
check_inner(w, format) ==
    IF w.inner # 0 THEN Ok(w)
    ELSE check_constructed(construct(w, format), w.ctx2.filename)

\* check has returned r for a width, height or format that differs from the
\* open segment's (w is the Recorder before the call): the change is recorded
check_changed(w, r, named) ==
    [r EXCEPT !.w.chg = [some |-> TRUE, old |-> w.inner, named |-> named, err |-> r.err,
                         new |-> r.w.inner, prev_file |-> w.ctx2.filename,
                         new_file |-> r.w.ctx2.filename, pts_after |-> r.w.pts,
                         audio_before |-> w.audio_pts_us,
                         audio_after |-> r.w.audio_pts_us]]

\* mutant: the old backend is dropped before the new filename is computed
check_differs_DropFirst(w, wd, h, format, fn) ==
    IF ~fn.ok THEN check_changed(w, Err(SetInnerNone(w), "FilesystemError"), FALSE)
    ELSE check_changed(
             w,
             check_inner(SetInnerNone([w EXCEPT !.ctx2 = [some |-> TRUE, filename |-> fn.filename,
                                                          width |-> wd, height |-> h,
                                                          format |-> format]]),
                         format),
             TRUE)

\* Recorder::check, the arm `Some(ref ctx2)` with a differing width, height or format
check_differs(w, wd, h, format, fn) ==
    IF ~fn.ok THEN check_changed(w, Err(w, "FilesystemError"), FALSE)
    ELSE check_changed(
             w,
             check_inner(SetInnerNone([w EXCEPT !.ctx2 = [some |-> TRUE, filename |-> fn.filename,
                                                          width |-> wd, height |-> h,
                                                          format |-> format]]),
                         format),
             TRUE)

\* Recorder::check, the arm `None`
check_none(w, wd, h, format, fn) ==
    IF ~fn.ok THEN Err(w, "FilesystemError")
    ELSE check_inner(SetInnerNone([w EXCEPT !.ctx2 = [some |-> TRUE, filename |-> fn.filename,
                                                      width |-> wd, height |-> h,
                                                      format |-> format]]),
                     format)

\* Recorder::check
check(w, wd, h, format) ==
    IF ~w.ctx2.some THEN check_none(w, wd, h, format, set_filename(w, format))
    ELSE IF w.ctx2.width # wd \/ w.ctx2.height # h \/ w.ctx2.format # format
    THEN check_differs(w, wd, h, format, set_filename(w, format))
    ELSE check_inner(w, format)

\* mutant: a lower pts is never taken for a timeline reset
pts_went_back_Never(old_pts, p) == FALSE

\* old_pts.clone().unwrap_or_default() > pts
pts_went_back(old_pts, p) == (IF old_pts.some THEN old_pts.v ELSE 0) > p

\* mutant: a failed check is reported but not latched
latch_Forgotten(w) == w

\* self.check_failed = true
latch(w) == [w EXCEPT !.check_failed = TRUE]

\* mutant: the baseline is left as check reset it
rebase_Skipped(w, p) == w

\* self.pts = Some(pts), after the rotation
rebase(w, p) == [w EXCEPT !.pts = SomePts(p)]

\* Recorder::check_pts after the check of a rotation has returned r; w is the
\* Recorder before the frame.  The rotation and the new baseline are recorded.
check_pts_rotated(w, r, f) ==
    LET w3 == IF r.err # "Ok" THEN latch(r.w) ELSE rebase(r.w, f.pts)
        ev == [some |-> TRUE, old |-> w.pts, pts |-> f.pts, key |-> f.key,
               prev_file |-> w.ctx2.filename,
               prev_written |-> w.inner # 0 /\ w.backends[w.inner].written,
               err |-> r.err,
               new_file |-> w3.ctx2.filename,
               same_cfg |-> w3.ctx2.some /\ w3.ctx2.width = w.ctx2.width
                            /\ w3.ctx2.height = w.ctx2.height
                            /\ w3.ctx2.format = w.ctx2.format,
               drops |-> CountDropped(w3.backends) - CountDropped(w.backends),
               news |-> Len(w3.backends) - Len(w.backends),
               newfiles |-> CountState(w3.sent, "NewFile") - CountState(w.sent, "NewFile"),
               pts_after |-> w3.pts,
               latched |-> w3.check_failed,
               audio_before |-> w.audio_pts_us,
               audio_after |-> w3.audio_pts_us]
        bs == IF r.err # "Ok" THEN w3.base
              ELSE [some |-> TRUE, pts |-> f.pts, key |-> f.key,
                    via |-> IF w.pts.some THEN "reset" ELSE "fresh"]
    IN [w |-> [w3 EXCEPT !.rot = ev, !.base = bs, !.nrot = @ + 1], err |-> r.err]

\* mutant: a first frame without the keyframe flag latches the failure
check_pts_LatchesNonKey(w, f, wd, h, format) ==
    IF ~w.pts.some /\ ~f.key THEN Err([w EXCEPT !.check_failed = TRUE], "NonKeyFirstFrame")
    ELSE IF pts_went_back(w.pts, f.pts)
    THEN check_pts_rotated(
             w,
             check([SetInnerNone([w EXCEPT !.pts = SomePts(f.pts)]) EXCEPT !.ctx2 = NoCtx2],
                   wd, h, format),
             f)
    ELSE Ok([w EXCEPT !.pts = SomePts(f.pts),
                      !.base = IF w.pts.some THEN @
                               ELSE [some |-> TRUE, pts |-> f.pts, key |-> f.key,
                                     via |-> "fresh"]])

\* Recorder::check_pts
check_pts(w, f, wd, h, format) ==
    IF ~w.pts.some /\ ~f.key THEN Err(w, "NonKeyFirstFrame")
    ELSE IF pts_went_back(w.pts, f.pts)
    THEN check_pts_rotated(
             w,
             check([SetInnerNone([w EXCEPT !.pts = SomePts(f.pts)]) EXCEPT !.ctx2 = NoCtx2],
                   wd, h, format),
             f)
    ELSE Ok([w EXCEPT !.pts = SomePts(f.pts),
                      !.base = IF w.pts.some THEN @
                               ELSE [some |-> TRUE, pts |-> f.pts, key |-> f.key,
                                     via |-> "fresh"]])

\* self.as_mut().map(|x| x.write_video(f))
forward(w, f, ok) ==
    IF w.inner = 0 THEN w
    ELSE [w EXCEPT !.backends[w.inner] = write_video(@, f, ok), !.noffered = @ + 1]

\* the for loop of write_frame, from frame i on; write_frames_checked is the
\* rest of an iteration once check_pts has returned r
RECURSIVE write_frames(_, _, _, _, _, _, _)
RECURSIVE write_frames_checked(_, _, _, _, _, _, _)
\* mutant: a frame the container writer rejects ends the batch
write_frames_checked_StopOnFalse(r, frames, oks, i, wd, h, format) ==
    IF r.err # "Ok" THEN r
    ELSE IF ~oks[i] THEN Ok(forward(r.w, frames[i], oks[i]))
    ELSE write_frames(forward(r.w, frames[i], oks[i]), frames, oks, i + 1, wd, h, format)

write_frames_checked(r, frames, oks, i, wd, h, format) ==
    IF r.err # "Ok" THEN r
    ELSE write_frames(forward(r.w, frames[i], oks[i]), frames, oks, i + 1, wd, h, format)

write_frames(w, frames, oks, i, wd, h, format) ==
    IF i > Len(frames) THEN Ok(w)
    ELSE write_frames_checked(check_pts(w, frames[i], wd, h, format), frames, oks, i, wd, h, format)

IterableUnion(w, union) ==
    union \in {"Vp8s", "Vp9s", "Av1s"} \/ (w.hwcodec /\ union \in {"H264s", "H265s"})

\* Recorder::write_frame after the loop has returned r
\* mutant: a written batch is not announced
write_frame_written_Silent(r) == r

\* self.send_state(RecordState::NewFrame) at the end of write_frame
write_frame_written(r) ==
    IF r.err # "Ok" THEN r ELSE Ok(send_state(r.w, NewFrame))

\* Recorder::write_frame after check has returned res
write_frame_checked(res, union, frames, oks, wd, h, format) ==
    IF res.err # "Ok" THEN Err(latch(res.w), res.err)
    ELSE IF ~IterableUnion(res.w, union) THEN Err(res.w, "UnsupportedFrameType")
    ELSE write_frame_written(write_frames(res.w, frames, oks, 1, wd, h, format))

\* mutant: an unsupported batch latches the Recorder
unsupported_Latched(w) == Err(latch(w), "UnsupportedFrameType")

\* bail!("Unsupported frame type") for CodecFormat::Unknown
unsupported(w) == Err(w, "UnsupportedFrameType")

\* Recorder::write_frame
write_frame(w, union, frames, oks, wd, h) ==
    IF w.check_failed THEN Err(w, "CheckFailed")
    ELSE IF CodecFormatFrom(union) = "Unknown" THEN unsupported(w)
    ELSE write_frame_checked(check(w, wd, h, CodecFormatFrom(union)),
                             union, frames, oks, wd, h, CodecFormatFrom(union))

\* let mut pts_us = self.audio_pts_us: the backend remembers the cursor that
\* the first audio write of its segment started from
cursor_read(b, cursor) == [b EXCEPT !.audio_from = IF @ = -1 THEN cursor ELSE @]

\* if self.audio_pts_us == 0 { if let Some(v) = self.pts { if v > 0 {: the
\* cursor is given the video pts; the backend counts how often
seeds(w) == w.audio_pts_us = 0 /\ w.pts.v > 0
cursor_seeded(b, w) == [b EXCEPT !.seeds = IF seeds(w) THEN @ + 1 ELSE @]

\* mutant: the number of steps is rounded down
steps_RoundedDown(behind, inc_us) == behind \div inc_us

\* (behind + inc_us - 1) / inc_us, in a build that wraps on overflow
steps(behind, inc_us) == wrapping_sub(wrapping_add(behind, inc_us), 1) \div inc_us

\* mutant: an accepted write leaves the cursor where it was
wrote_cursor_Unmoved(pts_us, inc_us) == pts_us

\* self.audio_pts_us.saturating_add(inc_us) after an accepted write
wrote_cursor(pts_us, inc_us) == saturating_add(pts_us, inc_us)

\* mutant: a rejected write moves the cursor on as an accepted one does
rejected_cursor_Advances(pts_us, inc_us, video_us) == saturating_add(pts_us, inc_us)

\* let next_audio_us = ...; if next_audio_us <= video_us { self.audio_pts_us = ... }
rejected_cursor(pts_us, inc_us, video_us) ==
    IF saturating_add(pts_us, inc_us) <= video_us
    THEN saturating_add(pts_us, inc_us) ELSE pts_us

\* mutant: a packet of unknown duration is taken for 10 ms
packet_inc_us_TenMs(data) ==
    IF opus_packet_duration_us(data, AUDIO_SAMPLE_RATE).some
    THEN opus_packet_duration_us(data, AUDIO_SAMPLE_RATE).v ELSE 10000

\* opus_packet_duration_us(data, self.audio_sample_rate).unwrap_or(20_000)
packet_inc_us(data) ==
    IF opus_packet_duration_us(data, AUDIO_SAMPLE_RATE).some
    THEN opus_packet_duration_us(data, AUDIO_SAMPLE_RATE).v ELSE DEFAULT_INC_US

\* mutant: audio is not held back until a video frame has been accepted
returns_early_NoPtsTest(w) == w.check_failed \/ w.inner = 0

\* the three guards of write_audio_opus
returns_early(w) == w.check_failed \/ ~w.pts.some \/ w.inner = 0

\* Recorder::write_audio_opus; ok is the result of the audio track's add_frame,
\* overflow_checks whether this build panics on integer overflow (else it wraps)
write_audio_opus(w, data, ok, overflow_checks) ==
    IF returns_early(w) THEN Ok(w)
    ELSE LET seeded == IF seeds(w)
                       THEN saturating_mul(as_u64(w.pts.v), 1000)
                       ELSE w.audio_pts_us
             inc_us == packet_inc_us(data)
             video_us == saturating_mul(as_u64(w.pts.v), 1000)
             lags == seeded < video_us
             behind == saturating_sub(video_us, seeded)
             panics == lags /\ overflows_add(behind, inc_us) /\ overflow_checks
             new_pts == saturating_add(seeded, saturating_mul(steps(behind, inc_us), inc_us))
             pts_us == IF lags THEN new_pts ELSE seeded
             b == w.backends[w.inner]
             b2 == cursor_read(write_audio(cursor_seeded(b, w), pts_us, ok), w.audio_pts_us)
             wrote == b2.audio[Len(b2.audio)].ok
         IN IF panics THEN Err([w EXCEPT !.audio_pts_us = seeded], "Panic")
            ELSE IF wrote
            THEN Ok(send_state([w EXCEPT !.backends[w.inner] = b2,
                                         !.audio_pts_us = wrote_cursor(pts_us, inc_us)],
                               NewFrame))
            ELSE Ok([w EXCEPT !.backends[w.inner] = b2,
                              !.audio_pts_us = rejected_cursor(pts_us, inc_us, video_us)])

\* ----------------------------------------------------- history summary ----
HistAfter(hs, n, union, frames, d) ==
    IF ~hs.steady THEN NoHist
    ELSE LET cfgOk == (hs.cfg = <<>> \/ hs.cfg = <<d, union>>) /\ CodecFormatFrom(union) # "Unknown"
             firstKey == n > 0 \/ frames = <<>> \/ frames[1].key
             mono == \A i \in 1..Len(frames) :
                        IF i = 1 THEN n = 0 \/ hs.lastpts <= frames[1].pts
                        ELSE frames[i - 1].pts <= frames[i].pts
         IN IF cfgOk /\ firstKey /\ mono
            THEN [steady |-> TRUE, cfg |-> <<d, union>>,
                  lastpts |-> IF frames = <<>> THEN hs.lastpts ELSE frames[Len(frames)].pts,
                  keyed |-> FALSE]
            ELSE NoHist

\* ------------------------------------------------------------- actions ----
Install(w) ==
    /\ inner' = w.inner
    /\ ctx2' = w.ctx2
    /\ pts' = w.pts
    /\ check_failed' = w.check_failed
    /\ audio_pts_us' = w.audio_pts_us
    /\ backends' = w.backends
    /\ disk' = w.disk
    /\ sent' = w.sent
    /\ rot' = w.rot
    /\ base' = w.base

\* what a write_audio_opus call on this Recorder with this packet, which
\* returned r, has computed: the cursor on entry, whether it was seeded, the
\* video pts, the estimated and the used duration, whether this was the first
\* attempt on the backend, the timestamp and the result of the attempt, and
\* the cursor on return
AudOf(r, data) ==
    IF returns_early(World) THEN NoAud
    ELSE [some |-> TRUE, data |-> data, before |-> audio_pts_us, seeded |-> seeds(World),
          pts |-> pts.v,
          dur |-> opus_packet_duration_us(data, AUDIO_SAMPLE_RATE),
          d |-> packet_inc_us(data),
          first |-> backends[inner].audio = <<>>,
          hw |-> backends[inner].variant = "hw",
          at |-> IF r.err = "Ok"
                 THEN r.w.backends[inner].audio[Len(r.w.backends[inner].audio)].pts_us
                 ELSE -1,
          wrote |-> r.err = "Ok"
                    /\ r.w.backends[inner].audio[Len(r.w.backends[inner].audio)].ok,
          after |-> r.w.audio_pts_us]

\* a handler has returned r: the Recorder is as r.w, and the call is recorded
Returned(op, r, union, frames, d, data) ==
    /\ Install(r.w)
    /\ last' = [op |-> op, ret |-> r.err, rotated |-> r.w.nrot > 0,
                offered |-> r.w.noffered, n |-> Len(frames), union |-> union,
                chg |-> r.w.chg,
                aud |-> IF op = "write_audio_opus" THEN AudOf(r, data) ELSE NoAud]
    /\ hist' = IF op # "write_frame" THEN hist
               ELSE [(IF r.w.check_failed THEN NoHist
                      ELSE HistAfter(hist, submitted, union, frames, d))
                     EXCEPT !.keyed = hist.keyed \/ \E i \in 1..Len(frames) : frames[i].key]
    /\ phase' = IF r.err = "Panic" THEN "panicked" ELSE phase

InitRecorder ==
    /\ inner = 0
    /\ ctx2 = NoCtx2
    /\ pts = NoPts
    /\ check_failed = FALSE
    /\ audio_pts_us = 0
    /\ hwcodec = "?"
    /\ family \in Families
    /\ ticks = 0
    /\ backends = <<>>
    /\ disk = <<>>
    /\ sent = <<>>
    /\ now = 0
    /\ phase = "running"
    /\ calls = 0
    /\ last = [op |-> "new", ret |-> "Ok", rotated |-> FALSE, offered |-> 0, n |-> 0,
               union |-> "", chg |-> NoChg, aud |-> NoAud]
    /\ rot = NoRot
    /\ base = NoBase
    /\ hist = [steady |-> TRUE, cfg |-> <<>>, lastpts |-> 0, keyed |-> FALSE]
    /\ submitted = 0

\* one Recorder, whose ctx.tx has a live receiver
Init == InitRecorder /\ twin = TwinsOf({}) /\ est = NoEst

\* the same, together with the Recorders whose ctx.tx is None or closed
SinkInit == InitRecorder /\ twin = TwinsOf(Sinks \ {"open"}) /\ est = NoEst

\* a call of the estimator with arguments from EstPackets and SampleRates
EstInit ==
    /\ InitRecorder /\ twin = TwinsOf({})
    /\ \E packet \in EstPackets, sample_rate \in SampleRates :
          est = [NoEst EXCEPT !.packet = packet, !.sample_rate = sample_rate]

\* whether a call with these inputs can reach set_filename or a constructor
MayConstruct(union, frames, d) ==
    \/ ~ctx2.some
    \/ inner = 0
    \/ <<ctx2.width, ctx2.height>> # d
    \/ ctx2.format # CodecFormatFrom(union)
    \/ \E i \in 1..Len(frames) :
          frames[i].pts < (IF i > 1 THEN frames[i - 1].pts ELSE IF pts.some THEN pts.v ELSE 0)

\* Inputs the code cannot tell apart are submitted in one form only: a call
\* that returns before reading its arguments gets the empty batch, and the
\* environment is consulted only by a call that can reach it.
ConfigChoices == IF check_failed THEN {<<"Rgb", <<1, 1>>>>} ELSE ConfigsOf(family)
BatchChoices(union) ==
    IF check_failed \/ CodecFormatFrom(union) = "Unknown" THEN {<<>>}
    ELSE {b \in BatchesOf(family) : Len(b) <= MaxFrames - submitted}
EnvChoices(union, frames, d) ==
    IF check_failed \/ CodecFormatFrom(union) = "Unknown" \/ ~MayConstruct(union, frames, d)
       \/ family = "audio"
    THEN {"ok"}
    ELSE IF union = "Av1s" THEN EnvStates ELSE EnvStates \ {"priv"}
\* the build feature is fixed by the first call that depends on it
HwChoices(union) ==
    IF hwcodec = "?" /\ union \in {"H264s", "H265s"} /\ ~check_failed THEN BOOLEAN
    ELSE {hwcodec = "on"}
\* Wall-clock time passes between the calls.  The clock is read by
\* set_filename, by the constructors and by Drop only, and only its
\* differences matter, so the time since the previous call is an input of the
\* calls that can reach one of them once a file exists.
DtChoices(reads) ==
    IF reads /\ ticks < MaxTicks /\ (disk # <<>> \/ backends # <<>>) THEN {0, TickMs} ELSE {0}

WriteFrame ==
    /\ phase = "running"
    /\ calls < CallsOf(family)
    /\ \E cfg \in ConfigChoices :
         \E frames \in BatchChoices(cfg[1]), hw \in HwChoices(cfg[1]) :
            \E e \in EnvChoices(cfg[1], frames, cfg[2]),
               oks \in [1..Len(frames) -> OksOf(family)],
               dt \in DtChoices(~check_failed /\ MayConstruct(cfg[1], frames, cfg[2])) :
               /\ Returned("write_frame",
                           write_frame([World EXCEPT !.env = e, !.hwcodec = hw, !.now = now + dt],
                                       cfg[1], frames, oks, cfg[2][1], cfg[2][2]),
                           cfg[1], frames, cfg[2], <<>>)
               /\ twin' = [t \in DOMAIN twin |->
                              Settled(write_frame(Resume(twin[t].w, e, hw, now + dt),
                                                  cfg[1], frames, oks, cfg[2][1], cfg[2][2]))]
               /\ hwcodec' = IF cfg[1] \in {"H264s", "H265s"} /\ ~check_failed
                             THEN (IF hw THEN "on" ELSE "off") ELSE hwcodec
               /\ submitted' = submitted + Len(frames)
               /\ now' = now + dt
               /\ ticks' = IF dt > 0 THEN ticks + 1 ELSE ticks
    /\ calls' = calls + 1
    /\ UNCHANGED <<family, est>>

AudioReturnsEarly == check_failed \/ ~pts.some \/ inner = 0
PacketChoices == IF AudioReturnsEarly THEN {<<>>} ELSE Packets
AudioOkChoices == IF AudioReturnsEarly THEN {TRUE} ELSE BOOLEAN
\* whether the build panics on overflow matters only where an addition overflows
OverflowChoices == IF ~AudioReturnsEarly /\ pts.v < 0 THEN BOOLEAN ELSE {FALSE}

WriteAudioOpus ==
    /\ phase = "running"
    /\ calls < CallsOf(family)
    /\ \E data \in PacketChoices, ok \in AudioOkChoices, overflow_checks \in OverflowChoices :
         /\ Returned("write_audio_opus", write_audio_opus(World, data, ok, overflow_checks),
                     "", <<>>, <<>>, data)
         /\ twin' = [t \in DOMAIN twin |->
                        Settled(write_audio_opus(Resume(twin[t].w, "ok", hwcodec = "on", now),
                                                 data, ok, overflow_checks))]
    /\ calls' = calls + 1
    /\ UNCHANGED <<hwcodec, family, ticks, now, submitted, est>>

\* the Recorder is dropped: its fields are dropped, the backend among them
Teardown ==
    /\ phase # "dropped"
    /\ \E dt \in DtChoices(inner # 0) :
         /\ Install(SetInnerNone([World EXCEPT !.now = now + dt]))
         /\ twin' = [t \in DOMAIN twin |->
                        Settled(Ok(SetInnerNone(Resume(twin[t].w, "ok", hwcodec = "on", now + dt))))]
         /\ now' = now + dt
         /\ ticks' = IF dt > 0 THEN ticks + 1 ELSE ticks
    /\ phase' = "dropped"
    /\ last' = [op |-> "drop", ret |-> "Ok", rotated |-> FALSE, offered |-> 0, n |-> 0,
                union |-> "", chg |-> NoChg, aud |-> NoAud]
    /\ UNCHANGED <<hwcodec, family, calls, hist, submitted, est>>

Next == WriteFrame \/ WriteAudioOpus \/ Teardown

Spec == Init /\ [][Next]_vars

SinkSpec == SinkInit /\ [][Next]_vars

\* opus_packet_duration_us(packet, sample_rate) and, as it calls them,
\* opus_samples_per_frame(packet[0], sample_rate) and opus_nb_frames(packet)
Estimate ==
    /\ ~est.applied
    /\ est' = [est EXCEPT !.applied = TRUE,
                          !.ret = opus_packet_duration_us(est.packet, est.sample_rate),
                          !.spf = IF Len(est.packet) = 0 \/ est.sample_rate = 0 THEN 0
                                  ELSE opus_samples_per_frame(est.packet[1], est.sample_rate),
                          !.nbf = IF Len(est.packet) = 0 \/ est.sample_rate = 0 THEN NoPts
                                  ELSE opus_nb_frames(est.packet)]
    /\ UNCHANGED recorder

EstNext == Estimate

EstSpec == EstInit /\ [][EstNext]_vars

\* ---------------------------------------------------------------------------
\* Properties
\* ---------------------------------------------------------------------------

BackendIds == 1..Len(backends)
CheckErrors == {"FilesystemError", "BackendConstructionError", "UnsupportedCodecForBackend"}

\* C1: write_audio is invoked on a backend only after that backend has accepted
\* a video keyframe, however the segment was opened (first use, resolution or
\* codec change, pts reset).  Every entry of a backend's audio log records
\* whether the backend had accepted a keyframe when write_audio was invoked.
C1_AudioOnlyAfterKeyframe ==
    \A i \in BackendIds : \A j \in 1..Len(backends[i].audio) : backends[i].audio[j].key

\* C2: a Recorder owns at most one open backend: no backend was constructed
\* while another one was still open, and the only open backend is inner.
C2_AtMostOneOpenBackend ==
    /\ \A i \in BackendIds : backends[i].peers = 0 /\ (backends[i].live => i = inner)
    /\ Cardinality({i \in BackendIds : backends[i].live}) <= 1
    /\ inner # 0 => backends[inner].live

C2_Witness ==
    /\ Len(backends) >= 2
    /\ inner = Len(backends)
    /\ ~backends[1].live

C4_OnlyWellFormedFilesRemain ==
    phase = "dropped" =>
        \A f \in DOMAIN disk :
            /\ disk[f] # 0
            /\ backends[disk[f]].finalized
            /\ backends[disk[f]].written
            /\ (backends[disk[f]].dropped_at - backends[disk[f]].start) \div 1000 >= MIN_SECS

\* C5: a failed check latches the Recorder, from write_frame and from the
\* pts-reset rotation alike; once latched, it stays latched, write_frame
\* returns an error, no backend is constructed or called, write_audio_opus
\* changes nothing, and no NewFile or NewFrame is emitted.
C5_LatchedFailureIsPermanent ==
    [][ /\ (last'.op = "write_frame" /\ last'.ret \in CheckErrors) => check_failed'
        /\ check_failed =>
             /\ check_failed'
             /\ last'.op = "write_frame" => last'.ret = "CheckFailed"
             /\ Len(backends') = Len(backends)
             /\ last'.offered = 0
             /\ TotalVideo(backends') <= TotalVideo(backends)
             /\ \A i \in BackendIds : Len(backends'[i].audio) <= Len(backends[i].audio)
             /\ CountState(sent', "NewFile") = CountState(sent, "NewFile")
             /\ CountState(sent', "NewFrame") = CountState(sent, "NewFrame")
             /\ pts' = pts /\ audio_pts_us' = audio_pts_us /\ ctx2' = ctx2
             /\ last'.op # "drop" => inner' = inner /\ backends' = backends /\ disk' = disk /\ sent' = sent
      ]_vars

C5_Witness ==
    /\ check_failed
    /\ rot.some /\ rot.err \in CheckErrors
    /\ last.op = "write_frame" /\ last.ret = "CheckFailed"

\* C6: the video pts values forwarded to any one backend are non-decreasing.
C6_VideoPtsNonDecreasing ==
    \A i \in BackendIds :
        \A j, k \in 1..Len(backends[i].video) :
            j < k => backends[i].video[j].pts <= backends[i].video[k].pts

C6_Witness ==
    /\ rot.some /\ rot.old.some /\ rot.err = "Ok"
    /\ inner = 2
    /\ Len(backends[2].video) >= 1
    /\ backends[2].video[1].pts < rot.old.v

\* C7: batches of constant width, height and codec whose first frame is a
\* keyframe and whose pts never decrease open exactly one segment (one NewFile,
\* one backend) and every frame is forwarded to that backend.
C7_SteadyStreamOneSegment ==
    (phase = "running" /\ hist.steady /\ submitted > 0 /\ ~check_failed) =>
        /\ Len(backends) = 1
        /\ inner = 1
        /\ CountState(sent, "NewFile") = 1
        /\ Len(backends[1].video) = submitted

\* C8: a frame whose pts is lower than the last accepted pts, arriving after a
\* successful write, opens exactly one new segment (one drop, one
\* construction, one NewFile) whose filename differs from the previous one.
C8_PtsResetOpensDistinctFile ==
    (rot.some /\ rot.old.some /\ rot.prev_written /\ rot.err = "Ok") =>
        /\ rot.drops = 1
        /\ rot.news = 1
        /\ rot.newfiles = 1
        /\ rot.new_file # rot.prev_file

\* C9: a pts reset whose backend construction succeeds is not an error: the
\* new segment has the same width, height and format, the pts baseline is the
\* incoming pts, the latch is not set, and write_frame returns Ok.
C9_PtsResetRecovers ==
    /\ (rot.some /\ rot.old.some /\ rot.err = "Ok") =>
          /\ rot.same_cfg
          /\ rot.news = 1
          /\ rot.pts_after = SomePts(rot.pts)
          /\ ~rot.latched
    /\ (last.op = "write_frame" /\ last.rotated /\ rot.err = "Ok") =>
          /\ last.ret = "Ok"
          /\ ~check_failed

C9_Witness ==
    /\ rot.some /\ rot.old.some /\ rot.err = "Ok"
    /\ last.op = "write_frame" /\ last.rotated /\ last.ret = "Ok"
    /\ rot.old.v > rot.pts

\* C10: the first frame check_pts accepts as the pts baseline of a newly opened
\* segment carries the keyframe flag, whichever way the segment was opened; a
\* non-key first frame fails with NonKeyFirstFrame and reaches no backend.
C10_BaselineIsKeyframe ==
    /\ base.some => base.key
    /\ (last.op = "write_frame" /\ last.ret = "NonKeyFirstFrame") => last.offered = 0

\* C11 (as amended): when write_frame finds a width, height or format that
\* differs from the open segment's, the new filename is computed while the old
\* backend is still open: if that fails the old backend stays open and the
\* Recorder is latched; otherwise the old backend is finalized-or-deleted, and
\* it is replaced by a newly constructed backend of the new geometry whenever
\* the constructor succeeds.
C11_ChangeReplacesBackend ==
    (last.op = "write_frame" /\ last.chg.some) =>
        /\ last.chg.old # 0
        /\ ~last.chg.named =>
              /\ last.chg.err = "FilesystemError"
              /\ inner = last.chg.old
              /\ backends[last.chg.old].live
              /\ check_failed
        /\ last.chg.named => ~backends[last.chg.old].live
        /\ (last.chg.named /\ last.chg.err # "Ok") => (last.chg.new = 0 /\ check_failed)
        /\ last.chg.err = "Ok" =>
              /\ last.chg.new = last.chg.old + 1
              /\ backends[last.chg.new].filename = last.chg.new_file
              /\ <<backends[last.chg.new].width, backends[last.chg.new].height,
                   backends[last.chg.new].format>>
                 # <<backends[last.chg.old].width, backends[last.chg.old].height,
                     backends[last.chg.old].format>>

C11_Witness ==
    /\ last.op = "write_frame" /\ last.chg.some /\ last.chg.err = "Ok"
    /\ inner = last.chg.new
    /\ backends[last.chg.old].outcome = "kept"

\* C11 as stated: a differing width, height or format always replaces the
\* open backend by a newly constructed one.
C11_AlwaysReplaced ==
    (last.op = "write_frame" /\ last.chg.some) =>
        (~backends[last.chg.old].live /\ last.chg.new # 0)

\* C12: right after a rotation has constructed a new backend (changed width,
\* height or format in check, or pts reset in check_pts) the audio cursor is 0,
\* and it still is when write_frame returns; the first audio write of every
\* segment starts from the unset cursor; after a rotation for a changed width,
\* height or format the pts baseline is unset as well.
C12_RotationResetsCursor ==
    /\ (last.chg.some /\ last.chg.err = "Ok") =>
          (last.chg.audio_after = 0 /\ last.chg.pts_after = NoPts)
    /\ (rot.some /\ rot.err = "Ok") => rot.audio_after = 0
    /\ (last.op = "write_frame"
          /\ ((last.chg.some /\ last.chg.err = "Ok") \/ (last.rotated /\ rot.err = "Ok"))) =>
          audio_pts_us = 0
    /\ \A i \in BackendIds : backends[i].audio_from \in {-1, 0}

C12_Witness ==
    /\ last.op = "write_frame"
    /\ last.chg.some /\ last.chg.err = "Ok" /\ last.chg.audio_before > 0
    /\ audio_pts_us = 0

\* C13: write_audio_opus called while the pts baseline is unset or while no
\* backend exists is a no-op and not an error: no backend is called, the
\* audio cursor and every other field stay as they were, nothing is emitted;
\* the same holds as long as no video keyframe has been accepted as baseline.
C13_AudioBeforeVideoIsNoOp ==
    [][ (last'.op = "write_audio_opus" /\ (~pts.some \/ inner = 0 \/ ~base.some)) =>
              /\ last'.ret = "Ok"
              /\ backends' = backends
              /\ audio_pts_us' = audio_pts_us
              /\ sent' = sent
              /\ inner' = inner /\ pts' = pts /\ ctx2' = ctx2 /\ disk' = disk
              /\ check_failed' = check_failed
      ]_vars

C13_Witness ==
    /\ last.op = "write_audio_opus"
    /\ inner # 0 /\ ~pts.some /\ ~check_failed
    /\ backends[inner].audio = <<>> /\ backends[inner].audio_from = -1

\* C14: when no submitted video frame carried the keyframe flag, no file is
\* left after teardown: the file of every backend that was opened has been
\* deleted (RemoveFile), and no other file exists.
C14_NoKeyframeNoFile ==
    (phase = "dropped" /\ ~hist.keyed) =>
        /\ disk = <<>>
        /\ \A i \in BackendIds : backends[i].outcome = "removed" /\ backends[i].removes = 1

\* C15: a backend that is torn down keeps its file and emits WriteTail if and
\* only if it had a successful write and at least MIN_SECS whole seconds had
\* passed since its construction; otherwise the file is deleted and RemoveFile
\* is emitted instead.
C15_KeptIffWrittenAndOldEnough ==
    \A i \in BackendIds :
        ~backends[i].live =>
            IF backends[i].written
               /\ (backends[i].dropped_at - backends[i].start) \div 1000 >= MIN_SECS
            THEN /\ backends[i].outcome = "kept"
                 /\ backends[i].tails = 1 /\ backends[i].removes = 0
                 /\ Exists(disk, backends[i].filename)
            ELSE /\ backends[i].outcome = "removed"
                 /\ backends[i].tails = 0 /\ backends[i].removes = 1
                 /\ \A f \in DOMAIN disk : disk[f] # i

C15_Witness ==
    \E i, j \in BackendIds :
        /\ backends[i].written /\ backends[i].outcome = "removed"
        /\ backends[j].written /\ backends[j].outcome = "kept"

\* C16: a write_video that returns false does not end the batch: whenever
\* write_frame returns Ok, every frame of the batch has been offered to a
\* backend, whatever the backend answered; frames are left out only when
\* check_pts fails.
C16_FailedWriteDoesNotStopBatch ==
    /\ (last.op = "write_frame" /\ last.ret = "Ok") => last.offered = last.n
    /\ (last.op = "write_frame" /\ last.offered < last.n) =>
          last.ret \in {"NonKeyFirstFrame"} \cup CheckErrors \cup {"CheckFailed", "UnsupportedFrameType"}

C16_Witness ==
    /\ last.op = "write_frame" /\ last.ret = "Ok" /\ ~last.rotated
    /\ last.n >= 2 /\ last.offered = last.n
    /\ inner # 0
    /\ Len(backends[inner].video) = last.n
    /\ ~backends[inner].video[1].ok
    /\ backends[inner].video[1].key

\* C17: a write_frame call that returns Ok adds exactly one NewFrame to the
\* notifications, whatever the size of its batch and the results of its
\* backend writes; a write_frame call that returns an error adds none.
C17_OneNewFramePerOkBatch ==
    [][last'.op = "write_frame" =>
          /\ Len(sent') >= Len(sent)
          /\ SubSeq(sent', 1, Len(sent)) = sent
          /\ CountState(sent', "NewFrame") - CountState(sent, "NewFrame")
                = IF last'.ret = "Ok" THEN 1 ELSE 0]_vars

C17_Witness ==
    /\ last.op = "write_frame" /\ last.ret = "Ok" /\ calls = 1
    /\ last.n = MaxFrames /\ last.offered = last.n
    /\ CountState(sent, "NewFrame") = 1
    /\ inner # 0
    /\ \E i \in 1..Len(backends[inner].video) : ~backends[inner].video[i].ok

\* C18: a write_frame whose batch maps to no known format, on a Recorder that
\* has not failed before, returns UnsupportedFrameType before the rotation
\* check: no backend is created or dropped, no file changes, segment
\* descriptor, pts baseline and audio cursor are unchanged, nothing is
\* notified and check_failed stays false.  (On a Recorder that has failed
\* before the same holds with the error CheckFailed.)
C18_UnsupportedBatchChangesNothing ==
    [][(last'.op = "write_frame" /\ CodecFormatFrom(last'.union) = "Unknown") =>
          /\ last'.ret = IF check_failed THEN "CheckFailed" ELSE "UnsupportedFrameType"
          /\ ~last'.rotated /\ ~last'.chg.some /\ last'.offered = 0
          /\ UNCHANGED <<inner, ctx2, pts, audio_pts_us, check_failed,
                         backends, disk, sent>>]_vars

C18_Witness ==
    /\ last.op = "write_frame" /\ last.ret = "UnsupportedFrameType"
    /\ inner # 0 /\ ctx2.some /\ pts.some /\ ~check_failed
    /\ backends[inner].live /\ backends[inner].outcome = "open"
    /\ backends[inner].written

\* what the claims about ctx.tx compare: the Recorder's fields, every backend
\* with its writes and its outcome, and the files
Obs(w) ==
    [inner |-> w.inner, ctx2 |-> w.ctx2, pts |-> w.pts, check_failed |-> w.check_failed,
     audio_pts_us |-> w.audio_pts_us, backends |-> w.backends, disk |-> w.disk]

\* C19: Recorders that differ only in ctx.tx (a sender with a live receiver,
\* no sender, a sender whose receiver is gone) and are given the same calls
\* with the same inputs have, after every call, the same fields, the same
\* backends with the same writes and the same kept or removed files, and
\* every call returns the same to each of them: a send that fails fails no
\* call.  Only the Recorder with a live receiver has sent anything.
C19_SinkDoesNotMatter ==
    \A t \in DOMAIN twin :
        /\ Obs(twin[t].w) = Obs(World)
        /\ last.op \in {"write_frame", "write_audio_opus"} => twin[t].err = last.ret
        /\ twin[t].w.sent = <<>>
        /\ twin[t].w.send_errs = IF t = "closed" THEN Len(sent) ELSE 0

C19_Witness ==
    /\ DOMAIN twin = Sinks \ {"open"}
    /\ phase = "dropped"
    /\ twin["closed"].w.send_errs >= 4
    /\ CountState(sent, "NewFrame") >= 1
    /\ \E i, j \in BackendIds : /\ backends[i].outcome = "kept"
                                /\ backends[j].outcome = "removed"
                                /\ twin["none"].w.backends[i].outcome = "kept"
                                /\ twin["closed"].w.backends[j].outcome = "removed"

\* C20: for a packet whose control byte is 0x00 and a sample rate of 48,000 Hz
\* the estimator takes 240 samples per frame and one frame, and returns a
\* duration of 5,000 microseconds, whatever follows the control byte.
C20_ZeroTocIsFiveMs ==
    (est.applied /\ Len(est.packet) >= 1 /\ est.packet[1] = 0 /\ est.sample_rate = 48000) =>
        /\ est.spf = 240
        /\ est.nbf = SomePts(1)
        /\ est.ret = SomePts(5000)

C20_Witness ==
    /\ est.applied /\ est.packet = <<0>> /\ est.sample_rate = 48000
    /\ est.spf = 240 /\ est.ret = SomePts(5000)

\* the estimator has been applied to a packet that starts with toc, count
\* at 48,000 Hz
EstApplied(toc, count) ==
    est.applied /\ est.packet = <<toc, count>> /\ est.sample_rate = 48000

\* C21: at 48,000 Hz the control byte 0xFC followed by a count byte of 2 is a
\* single-frame packet (the two low bits of 0xFC are 0, the count byte is not
\* read): 120 samples per frame, one frame, 2,500 microseconds.  The control
\* byte 0xFF followed by 2 is the explicit-frame-count packet of 120 samples
\* per frame and 2 frames, 5,000 microseconds.
C21_TopClassFrameCount ==
    /\ EstApplied(252, 2) =>
          est.spf = 120 /\ est.nbf = SomePts(1) /\ est.ret = SomePts(2500)
    /\ EstApplied(255, 2) =>
          est.spf = 120 /\ est.nbf = SomePts(2) /\ est.ret = SomePts(5000)

C21_Witness ==
    EstApplied(252, 2) /\ est.ret = SomePts(2500)

\* C21 as stated: 0xFC followed by 2 is taken as two frames of 120 samples,
\* 5,000 microseconds.
C21_AsExplicitCount ==
    EstApplied(252, 2) =>
        est.spf = 120 /\ est.nbf = SomePts(2) /\ est.ret = SomePts(5000)

\* samples per frame and frame count as the claim words them: by the
\* configuration bits (the upper three bits) and by the two low bits of the
\* control byte
ClassSamples(toc, rate) ==
    IF toc \div 32 >= 4 THEN rate \div 400
    ELSE IF toc \div 32 = 3 THEN rate \div 50
    ELSE IF toc \div 32 \in {1, 2} THEN rate \div 100
    ELSE rate \div 200
CodeFrames(packet) ==
    IF packet[1] % 4 = 0 THEN 1
    ELSE IF packet[1] % 4 \in {1, 2} THEN 2
    ELSE IF packet[2] % 64 = 0 THEN 1 ELSE packet[2] % 64
CountAvailable(packet) == packet[1] % 4 # 3 \/ Len(packet) >= 2
\* v = samples * 1,000,000 / rate in integer division; products beyond the
\* range of the checker's integers are compared after cancelling 1000
IsScaled(v, samples, rate) ==
    IF samples <= 2000 THEN v = (samples * 1000000) \div rate
    ELSE rate % 1000 = 0 /\ v = (samples * 1000) \div (rate \div 1000)
EstDefined ==
    est.applied /\ Len(est.packet) >= 1 /\ est.sample_rate # 0 /\ CountAvailable(est.packet)

\* C22: for a non-empty packet, a non-zero sample rate and an available frame
\* count, with samples = samples-per-frame * frame-count: if samples is not 0
\* the estimator returns samples * 1,000,000 / sample-rate (integer
\* divisions throughout); if samples is 0, which happens when the sample
\* rate is below the divisor of the class, it returns unknown.
C22_DurationFormula ==
    EstDefined =>
        /\ est.spf = ClassSamples(est.packet[1], est.sample_rate)
        /\ est.nbf = SomePts(CodeFrames(est.packet))
        /\ IF est.spf * est.nbf.v = 0 THEN ~est.ret.some
           ELSE est.ret.some /\ IsScaled(est.ret.v, est.spf * est.nbf.v, est.sample_rate)

C22_Witness ==
    /\ EstDefined /\ est.packet = <<255, 63>> /\ est.sample_rate = 48000
    /\ est.ret = SomePts(157500)

\* C22 as stated: the estimator returns the quotient for every such input.
C22_AlwaysReturnsQuotient ==
    EstDefined =>
        est.ret.some /\ IsScaled(est.ret.v, est.spf * est.nbf.v, est.sample_rate)

\* C23: the estimator returns unknown for the empty packet and for a sample
\* rate of 0; a write_audio_opus call whose packet has an unknown duration
\* uses 20,000 microseconds, any other call the estimated duration; the
\* duration used is positive, and an accepted write adds exactly that
\* duration to the cursor (a saturating addition).
C23_UnknownDurationIsTwentyMs ==
    /\ ~opus_packet_duration_us(<<>>, AUDIO_SAMPLE_RATE).some
    /\ \A p \in Packets : ~opus_packet_duration_us(p, 0).some
    /\ last.aud.some =>
          /\ last.aud.data = <<>> => ~last.aud.dur.some
          /\ last.aud.d = IF last.aud.dur.some THEN last.aud.dur.v ELSE 20000
          /\ last.aud.d > 0
          /\ last.aud.wrote =>
                last.aud.after = IF last.aud.at + last.aud.d > U64_MAX THEN U64_MAX
                                 ELSE last.aud.at + last.aud.d

C23_Witness ==
    /\ last.op = "write_audio_opus" /\ last.aud.some
    /\ last.aud.data = <<>> /\ ~last.aud.dur.some
    /\ last.aud.wrote /\ last.aud.after = last.aud.at + 20000

\* C24: a hardware-muxed backend accepts no audio.  While one is open it has
\* been marked written exactly if one of its video writes succeeded, and all
\* its audio writes returned false; a write_audio_opus call on it sends no
\* notification and leaves written as it was.  With C15, whether its file is
\* kept therefore depends on its video writes (and its age) only.
C24_HwTakesNoAudio ==
    [][/\ \A i \in 1..Len(backends') :
            (backends'[i].variant = "hw" /\ backends'[i].live) =>
                /\ backends'[i].written <=>
                      \E k \in 1..Len(backends'[i].video) : backends'[i].video[k].ok
                /\ \A k \in 1..Len(backends'[i].audio) : ~backends'[i].audio[k].ok
       /\ (last'.op = "write_audio_opus" /\ last'.aud.some /\ last'.aud.hw) =>
            /\ ~last'.aud.wrote
            /\ sent' = sent
            /\ backends'[inner].written = backends[inner].written]_vars

C24_Witness ==
    /\ last.op = "write_audio_opus" /\ last.aud.some /\ last.aud.hw
    /\ inner # 0 /\ backends[inner].variant = "hw"
    /\ backends[inner].written
    /\ Len(backends[inner].audio) >= 1

SoftwareMuxed == {"VP8", "VP9", "AV1"}

\* C25: a segment's file name ends in .webm exactly if its format is VP8, VP9
\* or AV1, and in .mp4 otherwise; the backend constructed for it is the
\* software-muxed one exactly for these formats and the hardware-muxed one
\* otherwise.  A write_frame of another (known) format on a build without the
\* hardware backend fails and latches the Recorder, and only such a call
\* fails with the unsupported-codec error.
C25_ExtensionMatchesBackend ==
    /\ ctx2.some =>
          /\ ctx2.filename.fmt = ctx2.format
          /\ ctx2.filename.ext = IF ctx2.format \in SoftwareMuxed THEN ".webm" ELSE ".mp4"
    /\ \A f \in DOMAIN disk : f.ext = IF f.fmt \in SoftwareMuxed THEN ".webm" ELSE ".mp4"
    /\ \A i \in BackendIds :
          /\ backends[i].filename.fmt = backends[i].format
          /\ backends[i].filename.ext = ".webm" <=> backends[i].format \in SoftwareMuxed
          /\ backends[i].filename.ext = ".mp4" <=> backends[i].format \notin SoftwareMuxed
          /\ backends[i].variant = "webm" <=> backends[i].format \in SoftwareMuxed
          /\ backends[i].variant = "hw" <=> backends[i].format \notin SoftwareMuxed
          /\ backends[i].variant = "hw" => hwcodec = "on"
    /\ (last.op = "write_frame" /\ last.ret = "UnsupportedCodecForBackend") =>
          /\ CodecFormatFrom(last.union) \in {"H264", "H265"}
          /\ hwcodec = "off" /\ check_failed /\ inner = 0
    /\ (last.op = "write_frame" /\ CodecFormatFrom(last.union) \in {"H264", "H265"}
        /\ hwcodec = "off") =>
          /\ last.ret \in {"UnsupportedCodecForBackend", "FilesystemError", "CheckFailed"}
          /\ check_failed
          /\ inner # 0 => backends[inner].variant = "webm"

C25_Witness ==
    /\ \E i, j, k \in BackendIds :
          /\ backends[i].format = "VP8" /\ backends[i].filename.ext = ".webm"
          /\ backends[j].format = "H265" /\ backends[j].filename.ext = ".mp4"
          /\ backends[j].variant = "hw"
          /\ backends[k].format = "AV1" /\ backends[k].variant = "webm"

\* the video timeline of a write_audio_opus call as the code computes it: the
\* pts converted to u64 (a negative pts becomes a value near the maximum),
\* times 1000, saturating
TimelineUs(p) == IF p >= 0 /\ p <= U64_MAX \div 1000 THEN p * 1000 ELSE U64_MAX
\* the cursor the call finds once the seeding step is over
CursorFound(a) == IF a.seeded THEN TimelineUs(a.pts) ELSE a.before
CeilSteps(c, v, d) == IF (v - c) % d = 0 THEN (v - c) \div d ELSE (v - c) \div d + 1
Overflows(c, v, d) == (v - c) > U64_MAX - (d - 1) \/ c > U64_MAX - CeilSteps(c, v, d) * d

C27_FirstAudioAtVideoPts ==
    /\ (last.op = "write_audio_opus" /\ last.aud.some /\ last.aud.first
        /\ last.ret = "Ok") =>
          last.aud.at = last.aud.pts * 1000
    /\ \A i \in BackendIds : backends[i].seeds <= 1

\* the sum as the cursor holds it: the addition saturates
SatSum(t, d) == IF t + d > U64_MAX THEN U64_MAX ELSE t + d

C30_RejectedWriteNeverAdvances ==
    [][(last'.op = "write_audio_opus" /\ last'.aud.some /\ last'.ret = "Ok"
        /\ last'.aud.pts >= 0) =>
            /\ last'.aud.at >= TimelineUs(last'.aud.pts)
            /\ ~last'.aud.wrote =>
                  /\ audio_pts_us' = last'.aud.at
                  /\ audio_pts_us >= TimelineUs(last'.aud.pts) => audio_pts_us' = audio_pts_us]_vars

\* C31: on an open backend of either variant a video frame is forwarded to
\* the container writer exactly if it or a frame offered before it carried
\* the keyframe flag; a frame that is not forwarded returns false, and the
\* backend is marked written only by a write that succeeded.
C31_NoVideoBeforeKeyframe ==
    \A i \in BackendIds : backends[i].live =>
        /\ \A k \in 1..Len(backends[i].video) :
              /\ backends[i].video[k].fwd <=> \E j \in 1..k : backends[i].video[j].key
              /\ ~backends[i].video[k].fwd => ~backends[i].video[k].ok
        /\ backends[i].key <=> \E j \in 1..Len(backends[i].video) : backends[i].video[j].key
        /\ backends[i].written <=>
              \/ \E k \in 1..Len(backends[i].video) : backends[i].video[k].ok
              \/ \E k \in 1..Len(backends[i].audio) : backends[i].audio[k].ok

C31_Witness ==
    /\ inner # 0 /\ backends[inner].live
    /\ Len(backends[inner].video) >= 2
    /\ ~backends[inner].video[1].key /\ ~backends[inner].video[1].fwd
    /\ ~backends[inner].video[1].ok
    /\ backends[inner].video[2].key /\ backends[inner].video[2].fwd
    /\ backends[inner].video[2].ok /\ backends[inner].written

\* a video pts (milliseconds) and an audio timestamp (microseconds) in
\* nanoseconds, as a u64 holds them
VideoNs(e) ==
    IF ~e.some THEN 0
    ELSE IF e.v < 0 \/ e.v > U64_MAX \div 1000000 THEN U64_MAX ELSE e.v * 1000000
AudioNs(e) ==
    IF ~e.some THEN 0
    ELSE IF e.v > U64_MAX \div 1000 THEN U64_MAX ELSE e.v * 1000

\* C32: the duration a software-muxed backend passes to finalize when it is
\* dropped is the larger of the timestamp of the last video frame and of the
\* last audio packet its writer accepted, in nanoseconds, 0 standing for
\* none; writes that were rejected do not count.
C32_DurationIsLastAcceptedTimestamp ==
    \A i \in BackendIds : (backends[i].finalized /\ backends[i].variant = "webm") =>
        backends[i].duration_ns = Max(VideoNs(backends[i].video_end),
                                      AudioNs(backends[i].audio_end))

C32_Witness ==
    \E i \in BackendIds :
        /\ backends[i].finalized /\ backends[i].variant = "webm"
        /\ backends[i].video_end.some /\ backends[i].audio_end.some
        /\ backends[i].seeds = 1
        /\ backends[i].duration_ns = AudioNs(backends[i].audio_end)
        /\ backends[i].duration_ns > VideoNs(backends[i].video_end)
        /\ backends[i].duration_ns < U64_MAX

\* the number of segments the first k notifications leave open
OpenAfter(k) ==
    Cardinality({j \in 1..k : sent[j].state = "NewFile"})
        - Cardinality({j \in 1..k : sent[j].state \in {"WriteTail", "RemoveFile"}})

\* C33: the notifications emitted so far are a prefix of
\* (NewFile NewFrame* (WriteTail | RemoveFile))*: a NewFile is emitted only
\* when no segment is open, a NewFrame, WriteTail or RemoveFile only while
\* one is open, a segment is open in the stream exactly while the recorder
\* holds a backend, and after teardown every NewFile has been closed by
\* exactly one WriteTail or RemoveFile.
C33_NotificationShape ==
    /\ \A k \in 1..Len(sent) :
          IF sent[k].state = "NewFile" THEN OpenAfter(k - 1) = 0 ELSE OpenAfter(k - 1) = 1
    /\ OpenAfter(Len(sent)) = (IF inner # 0 THEN 1 ELSE 0)
    /\ phase = "dropped" => OpenAfter(Len(sent)) = 0

C33_Witness ==
    /\ phase = "dropped"
    /\ Len(sent) >= 6
    /\ \E k \in 3..(Len(sent) - 3) :
          /\ sent[k].state \in {"WriteTail", "RemoveFile"}
          /\ sent[k - 1].state = "NewFrame"
          /\ sent[k + 1].state = "NewFile"
          /\ sent[k + 2].state = "NewFrame"
    /\ sent[Len(sent)].state \in {"WriteTail", "RemoveFile"}

\* C34: under every interleaving of write_frame and write_audio_opus calls,
\* the timestamps of the audio writes attempted on one backend never
\* decrease, those of the accepted writes increase strictly (below the
\* largest timestamp a u64 holds), and a write attempted while the video pts
\* is not negative is at or beyond the video timeline of that moment.
C34_AudioTimestampsOrdered ==
    /\ \A i \in BackendIds : backends[i].live =>
          \A k, l \in 1..Len(backends[i].audio) : k < l =>
              /\ backends[i].audio[k].pts_us <= backends[i].audio[l].pts_us
              /\ (backends[i].audio[k].ok /\ backends[i].audio[l].ok
                  /\ backends[i].audio[k].pts_us < U64_MAX)
                    => backends[i].audio[k].pts_us < backends[i].audio[l].pts_us
    /\ (last.op = "write_audio_opus" /\ last.aud.some /\ last.ret = "Ok" /\ last.aud.pts >= 0) =>
          last.aud.at >= TimelineUs(last.aud.pts)

\* the number of NewFrame notifications in a stream
NewFrames(stream) == Cardinality({k \in 1..Len(stream) : stream[k].state = "NewFrame"})

\* C35: a write_frame call that fails with NonKeyFirstFrame forwards no frame
\* of its batch to the backend and emits no NewFrame; the backend of the
\* segment is open and empty afterwards (the backend the call found, unless
\* it found none or another width, height or format), the failure is not
\* latched and the recorder has no pts.  A following batch for the same
\* segment that succeeds without a timeline reset writes its frames, the
\* first a keyframe, into that same backend and emits one NewFrame and no
\* NewFile.
C35_NonKeyFirstFrameLeavesSegmentUsable ==
    [][/\ (last'.op = "write_frame" /\ last'.ret = "NonKeyFirstFrame") =>
            /\ last'.offered = 0
            /\ NewFrames(sent') = NewFrames(sent)
            /\ inner' # 0
            /\ backends'[inner'].live
            /\ backends'[inner'].video = <<>> /\ backends'[inner'].audio = <<>>
            /\ ~backends'[inner'].written
            /\ ~check_failed'
            /\ pts' = NoPts
            /\ (inner # 0 /\ ~last'.chg.some) => (inner' = inner /\ sent' = sent)
       /\ (/\ last.op = "write_frame" /\ last.ret = "NonKeyFirstFrame"
           /\ last'.op = "write_frame" /\ last'.ret = "Ok"
           /\ ~last'.chg.some /\ ~last'.rotated /\ last'.n > 0) =>
            /\ inner' = inner
            /\ sent' = Append(sent, NewFrame)
            /\ last'.offered = last'.n
            /\ Len(backends'[inner].video) = last'.n
            /\ backends'[inner].video[1].key /\ backends'[inner].video[1].fwd]_vars

\* a batch whose first frame lacks the keyframe flag and which holds further
\* frames has failed on the one open, empty backend
C35_Witness ==
    /\ last.op = "write_frame" /\ last.ret = "NonKeyFirstFrame"
    /\ last.n >= 2 /\ last.offered = 0
    /\ inner # 0 /\ backends[inner].live /\ backends[inner].video = <<>>
    /\ ~check_failed /\ pts = NoPts
    /\ Cardinality({k \in 1..Len(sent) : sent[k].state = "NewFile"}) = 1
    /\ NewFrames(sent) = 0

\* C36: in every write_audio_opus call that reaches the alignment, whatever
\* video pts the recorder holds, no sum overflows, the video timeline the
\* code computes is exactly pts * 1000, and an accepted write leaves the
\* cursor at exactly the timestamp of the attempt plus the packet duration.
C36_AlignmentArithmeticExact ==
    (last.op = "write_audio_opus" /\ last.aud.some) =>
        /\ last.ret = "Ok"
        /\ saturating_mul(as_u64(last.aud.pts), 1000) = last.aud.pts * 1000
        /\ last.aud.wrote => last.aud.after = last.aud.at + last.aud.d

====
